---------------------------- MODULE Spec2Model ----------------------------
(***************************************************************************)
(* A model of the simbiota database container format: the header codec,    *)
(* the object-map codec, the raw-object codec, the raw database assembler, *)
(* the eager Database facade and the LazyLoadedDatabase facade.            *)
(*                                                                         *)
(* Byte buffers are sequences of 0..255.  Every integer of the model stays *)
(* below 2^31, so the bytes of a u64 above the fourth are zero.            *)
(***************************************************************************)
EXTENDS Integers, Sequences, FiniteSets, TLC

VARIABLES
    header,            \* header codec: the Header handed to the encoder
    hbytes,            \* header codec: the buffer handed to the decoder
    hresult,           \* header codec: what Header::try_from returned
    object_map,        \* map codec: the ObjectMap handed to the encoder
    mbytes,            \* map codec: the buffer handed to the decoder
    mcount,            \* map codec: the entry_count handed to the decoder
    mresult,           \* map codec: what ObjectMap::try_from returned
    raw_object,        \* object codec: the RawObject handed to the encoder
    obytes,            \* object codec: the buffer handed to the decoder
    oresult,           \* object codec: what RawObject::try_from returned
    objects,           \* Database.objects (id -> Object)
    last_updated,      \* Database._last_updated
    database_version,  \* Database.database_version
    file,              \* the bytes of the last as_bytes call, written to the file
    loaded,            \* what Database::from_bytes returned for the file
    lazy,              \* what LazyLoadedDatabase::new returned for the file
    last_call,         \* the arguments of the most recent Database::add_object
    clock,             \* what the clock read in the most recent as_bytes call
    written,           \* what the most recent as_bytes call returned
    compression_feature \* cfg!(feature = "compression") of the build

vars == <<header, hbytes, hresult, object_map, mbytes, mcount, mresult,
          raw_object, obytes, oresult, objects, last_updated,
          database_version, file, loaded, lazy, last_call, clock,
          written, compression_feature>>

headerVars == <<header, hbytes, hresult>>
mapVars == <<object_map, mbytes, mcount, mresult>>
objectVars == <<raw_object, obytes, oresult>>
databaseVars == <<objects, last_updated, database_version, file, loaded, lazy,
                  last_call, clock, written>>

-----------------------------------------------------------------------------
(* Bounds of the model. *)

\* Longest extra_data handed to the header encoder (13 is the first length
\* that needs a third 16-byte block).
MaxExtra == 13
\* Most mappings in an ObjectMap handed to the map encoder.
MaxMappings == 2
\* Most entries in an object.
MaxEntries == 2

-----------------------------------------------------------------------------
(* Results: Result<T, E>, a panic, and "no call made yet". *)

NotCalled == [tag |-> "NotCalled"]
Ok(v) == [tag |-> "Ok", val |-> v]
Err(e) == [tag |-> "Err", err |-> e]
Panic == [tag |-> "Panic"]

IsOk(r) == r.tag = "Ok"
IsErr(r) == r.tag = "Err"

-----------------------------------------------------------------------------
(* Bytes and big-endian integers. *)

Zeros(n) == [i \in 1..n |-> 0]

Pow256(k) == IF k = 0 THEN 1 ELSE IF k = 1 THEN 256 ELSE IF k = 2 THEN 65536 ELSE 16777216

\* Byte k (0 = least significant) of n.
ByteOf(n, k) == IF k > 3 THEN 0 ELSE (n \div Pow256(k)) % 256

\* u16/u32/u64::to_be_bytes, w the width in bytes.
to_be_bytes(n, w) == [i \in 1..w |-> ByteOf(n, w - i)]

\* u16/u32/u64::from_be_bytes.
RECURSIVE from_be_bytes(_)
from_be_bytes(b) ==
    IF b = <<>> THEN 0
    ELSE from_be_bytes(SubSeq(b, 1, Len(b) - 1)) * 256 + b[Len(b)]

\* &value[from..to] of the source (0-based, to exclusive).
Slice(value, from, to) == SubSeq(value, from + 1, to)

next_multiple_of(lhs, rhs) == ((lhs + rhs - 1) \div rhs) * rhs

-----------------------------------------------------------------------------
(* header.rs *)

HEADER_MAGIC == <<67, 83, 71, 77>>

HeaderNew(number_of_objects, extra_data) ==
    [version |-> 1, number_of_objects |-> number_of_objects,
     header_len |-> 0, extra_data |-> extra_data]

partial_version(data) ==
    IF Len(data) < 4 + 4 THEN Err("TooShort")
    ELSE IF Slice(data, 0, 4) # HEADER_MAGIC THEN Err("InvalidMagic")
    ELSE Ok(from_be_bytes(Slice(data, 4, 8)))

\* HeaderToBytes with a padding block added also to a length that is
\* already a multiple of 16.
HeaderToBytes_AlwaysPads(value) ==
    LET length_before_padding == 4 + 4 + 8 + 4 + Len(value.extra_data)
        full_length == ((length_before_padding \div 16) + 1) * 16
        padding_length == full_length - length_before_padding
    IN  HEADER_MAGIC
        \o to_be_bytes(value.version, 4)
        \o to_be_bytes(value.number_of_objects, 8)
        \o to_be_bytes(full_length, 4)
        \o value.extra_data
        \o Zeros(padding_length)

\* impl From<Header> for Vec<u8>.  The assert_eq! on the written length
\* compares Len of the result with full_length.
HeaderToBytes(value) ==
    LET length_before_padding == 4 + 4 + 8 + 4 + Len(value.extra_data)
        full_length == next_multiple_of(length_before_padding, 16)
        padding_length == full_length - length_before_padding
    IN  HEADER_MAGIC
        \o to_be_bytes(value.version, 4)
        \o to_be_bytes(value.number_of_objects, 8)
        \o to_be_bytes(full_length, 4)
        \o value.extra_data
        \o Zeros(padding_length)

\* HeaderTryFrom with the version tested before the magic.
HeaderTryFrom_VersionFirst(value) ==
    LET input_length == Len(value)
        version == from_be_bytes(Slice(value, 4, 8))
        number_of_objects == from_be_bytes(Slice(value, 8, 16))
        header_length == from_be_bytes(Slice(value, 16, 20))
    IN  IF input_length < 4 + 4 + 8 + 4 THEN Err("TooShort")
        ELSE IF version # 1 THEN Err("UnsupportedVersion")
        ELSE IF Slice(value, 0, 4) # HEADER_MAGIC THEN Err("InvalidMagic")
        ELSE IF input_length < header_length THEN Err("TooShort")
        ELSE IF header_length % 16 # 0 THEN Err("InvalidPadding")
        ELSE IF header_length < 4 + 4 + 8 + 4 THEN Panic
        ELSE Ok([version |-> version,
                 number_of_objects |-> number_of_objects,
                 header_len |-> header_length,
                 extra_data |-> Slice(value, 20, header_length)])

\* HeaderTryFrom with the extra data copied from the header_len field on
\* (index 16 + offset for 20 + offset).
HeaderTryFrom_ExtraFrom16(value) ==
    LET input_length == Len(value)
        version == partial_version(value)
        number_of_objects == from_be_bytes(Slice(value, 8, 16))
        header_length == from_be_bytes(Slice(value, 16, 20))
    IN  IF input_length < 4 + 4 + 8 + 4 THEN Err("TooShort")
        ELSE IF IsErr(version) THEN version
        ELSE IF version.val # 1 THEN Err("UnsupportedVersion")
        ELSE IF input_length < header_length THEN Err("TooShort")
        ELSE IF header_length % 16 # 0 THEN Err("InvalidPadding")
        ELSE IF header_length < 4 + 4 + 8 + 4 THEN Panic
        ELSE Ok([version |-> version.val,
                 number_of_objects |-> number_of_objects,
                 header_len |-> header_length,
                 extra_data |-> Slice(value, 16, header_length - 4)])

\* impl TryFrom<&[u8]> for Header.  header_length - 20 is a u32 subtraction:
\* below 20 it overflows, which panics in a debug build and in a release
\* build wraps to a count near 2^32 whose loop indexes past the buffer.
HeaderTryFrom(value) ==
    LET input_length == Len(value)
        version == partial_version(value)
        number_of_objects == from_be_bytes(Slice(value, 8, 16))
        header_length == from_be_bytes(Slice(value, 16, 20))
    IN  IF input_length < 4 + 4 + 8 + 4 THEN Err("TooShort")
        ELSE IF IsErr(version) THEN version
        ELSE IF version.val # 1 THEN Err("UnsupportedVersion")
        ELSE IF input_length < header_length THEN Err("TooShort")
        ELSE IF header_length % 16 # 0 THEN Err("InvalidPadding")
        ELSE IF header_length < 4 + 4 + 8 + 4 THEN Panic
        ELSE Ok([version |-> version.val,
                 number_of_objects |-> number_of_objects,
                 header_len |-> header_length,
                 extra_data |-> Slice(value, 20, header_length)])


-----------------------------------------------------------------------------
(* object_map.rs *)

ObjectMappingNew(id, offset) == [id |-> id, offset |-> offset]

\* impl TryFrom<&[u8]> for ObjectMapping
ObjectMappingTryFrom(value) ==
    LET id == from_be_bytes(Slice(value, 0, 8))
        offset == from_be_bytes(Slice(value, 8, 16))
    IN  IF Len(value) # 16 THEN Err("InvalidLength")
        ELSE IF offset % 16 # 0 THEN Err("InvalidPadding")
        ELSE Ok([id |-> id, offset |-> offset])

\* The for loop of ObjectMap::try_from from record index on; the ? operator
\* returns the first error.
RECURSIVE DecodeMappings(_, _, _, _)
DecodeMappings(value, index, num_of_entries, entries) ==
    IF index >= num_of_entries THEN Ok([mappings |-> entries])
    ELSE LET offset == index * 16
             mapping == ObjectMappingTryFrom(Slice(value, offset, offset + 16))
         IN  IF IsErr(mapping) THEN mapping
             ELSE DecodeMappings(value, index + 1, num_of_entries,
                                 Append(entries, mapping.val))

\* ObjectMap::try_from(value, entry_count)
ObjectMapTryFrom(value, entry_count) ==
    LET data_len == Len(value)
    IN  IF data_len = 0 THEN Err("InvalidLength")
        ELSE IF data_len < entry_count * 16 THEN Err("InvalidLength")
        ELSE DecodeMappings(value, 0, entry_count, <<>>)

\* impl From<ObjectMap> for Vec<u8>, mappings being value.mappings
RECURSIVE ObjectMapToBytes(_)
ObjectMapToBytes(mappings) ==
    IF mappings = <<>> THEN <<>>
    ELSE to_be_bytes(Head(mappings).id, 8)
         \o to_be_bytes(Head(mappings).offset, 8)
         \o ObjectMapToBytes(Tail(mappings))

-----------------------------------------------------------------------------
(* object.rs *)

ObjectError(kind, code) == [kind |-> kind, code |-> code]
ObjectTooShort == ObjectError("TooShort", 0)
UnsupportedCompression(c) == ObjectError("UnsupportedCompression", c)
CompressionError == ObjectError("CompressionError", 0)
ObjectInvalidPadding == ObjectError("InvalidPadding", 0)

RawObjectNew(format, compression, entry_type, entry_size) ==
    [format |-> format, compression |-> compression, entry_type |-> entry_type,
     entry_size |-> entry_size, length |-> 0, data |-> <<>>]

\* RawObject::decode_flate2.  The zlib decoder of the flate2 crate is outside
\* the repository; it is abstracted to a stream that is the two-byte zlib
\* header 0x78 0x9c followed by the stored payload, anything else being a
\* malformed stream.
decode_flate2(input_data) ==
    IF Len(input_data) >= 2 /\ input_data[1] = 120 /\ input_data[2] = 156
    THEN Ok(Slice(input_data, 2, Len(input_data)))
    ELSE Err(CompressionError)

\* RawObject::decode_data; feature is cfg!(feature = "compression").
decode_data(compression, input_data, feature) ==
    IF compression = 0 THEN Ok(input_data)
    ELSE IF compression = 1
         THEN IF feature THEN decode_flate2(input_data)
              ELSE Err(UnsupportedCompression(1))
    ELSE Err(UnsupportedCompression(compression))

\* decoded_data.chunks_exact(entry_size).map(|c| c.to_vec()).collect()
chunks_exact(decoded_data, entry_size) ==
    [i \in 1..(Len(decoded_data) \div entry_size) |->
        Slice(decoded_data, (i - 1) * entry_size, i * entry_size)]

\* RawObjectTryFrom with a declared length of 16 (no payload) accepted.
RawObjectTryFrom_AcceptsEmpty(value, feature) ==
    LET data_length == Len(value)
        format == from_be_bytes(Slice(value, 0, 2))
        compression == from_be_bytes(Slice(value, 2, 4))
        entry_type == from_be_bytes(Slice(value, 4, 6))
        entry_size == from_be_bytes(Slice(value, 6, 8))
        length == from_be_bytes(Slice(value, 8, 16))
        decoded_data == decode_data(compression, Slice(value, 16, length), feature)
    IN  IF data_length < 2 + 2 + 2 + 2 + 8 THEN Err(ObjectTooShort)
        ELSE IF data_length < length THEN Err(ObjectTooShort)
        ELSE IF length < 16 THEN Err(ObjectTooShort)
        ELSE IF IsErr(decoded_data) THEN decoded_data
        ELSE IF entry_size = 0 THEN Panic
        ELSE Ok([format |-> format, compression |-> compression,
                 entry_size |-> entry_size, entry_type |-> entry_type,
                 length |-> length,
                 data |-> chunks_exact(decoded_data.val, entry_size)])

\* RawObjectTryFrom with the payload taken up to the end of the buffer
\* instead of up to the declared length.
RawObjectTryFrom_ToBufferEnd(value, feature) ==
    LET data_length == Len(value)
        format == from_be_bytes(Slice(value, 0, 2))
        compression == from_be_bytes(Slice(value, 2, 4))
        entry_type == from_be_bytes(Slice(value, 4, 6))
        entry_size == from_be_bytes(Slice(value, 6, 8))
        length == from_be_bytes(Slice(value, 8, 16))
        decoded_data == decode_data(compression, Slice(value, 16, data_length), feature)
    IN  IF data_length < 2 + 2 + 2 + 2 + 8 THEN Err(ObjectTooShort)
        ELSE IF data_length < length THEN Err(ObjectTooShort)
        ELSE IF length <= 16 THEN Err(ObjectTooShort)
        ELSE IF IsErr(decoded_data) THEN decoded_data
        ELSE IF entry_size = 0 THEN Panic
        ELSE Ok([format |-> format, compression |-> compression,
                 entry_size |-> entry_size, entry_type |-> entry_type,
                 length |-> length,
                 data |-> chunks_exact(decoded_data.val, entry_size)])

\* impl TryFrom<&[u8]> for RawObject.  chunks_exact panics on a chunk size
\* of zero.
RawObjectTryFrom(value, feature) ==
    LET data_length == Len(value)
        format == from_be_bytes(Slice(value, 0, 2))
        compression == from_be_bytes(Slice(value, 2, 4))
        entry_type == from_be_bytes(Slice(value, 4, 6))
        entry_size == from_be_bytes(Slice(value, 6, 8))
        length == from_be_bytes(Slice(value, 8, 16))
        decoded_data == decode_data(compression, Slice(value, 16, length), feature)
    IN  IF data_length < 2 + 2 + 2 + 2 + 8 THEN Err(ObjectTooShort)
        ELSE IF data_length < length THEN Err(ObjectTooShort)
        ELSE IF length <= 16 THEN Err(ObjectTooShort)
        ELSE IF IsErr(decoded_data) THEN decoded_data
        ELSE IF entry_size = 0 THEN Panic
        ELSE Ok([format |-> format, compression |-> compression,
                 entry_size |-> entry_size, entry_type |-> entry_type,
                 length |-> length,
                 data |-> chunks_exact(decoded_data.val, entry_size)])

\* The entries of value.data one after the other.
RECURSIVE Flatten(_)
Flatten(data) == IF data = <<>> THEN <<>> ELSE Head(data) \o Flatten(Tail(data))

\* RawObjectToBytes with the padded length written into the length field.
RawObjectToBytes_PaddedLength(value) ==
    LET entry_count == Len(value.data)
        raw_length == 16 + (entry_count * value.entry_size)
        full_length == next_multiple_of(raw_length, 16)
        padding_len == full_length - raw_length
    IN  IF value.compression # 0 THEN Panic
        ELSE IF \E i \in 1..entry_count : Len(value.data[i]) # value.entry_size
        THEN Panic
        ELSE Ok(to_be_bytes(value.format, 2)
                \o to_be_bytes(value.compression, 2)
                \o to_be_bytes(value.entry_type, 2)
                \o to_be_bytes(value.entry_size, 2)
                \o to_be_bytes(full_length, 8)
                \o Flatten(value.data)
                \o Zeros(padding_len))

\* RawObjectToBytes without the two assert_eq!: every object is written,
\* under the tag it carries.
RawObjectToBytes_NoAsserts(value) ==
    LET entry_count == Len(value.data)
        raw_length == 16 + (entry_count * value.entry_size)
        full_length == next_multiple_of(raw_length, 16)
        padding_len == full_length - raw_length
    IN  Ok(to_be_bytes(value.format, 2)
           \o to_be_bytes(value.compression, 2)
           \o to_be_bytes(value.entry_type, 2)
           \o to_be_bytes(value.entry_size, 2)
           \o to_be_bytes(raw_length, 8)
           \o Flatten(value.data)
           \o Zeros(IF padding_len > 0 THEN padding_len ELSE 0))

\* impl From<RawObject> for Vec<u8>.  The two assert_eq! abort the encoding.
RawObjectToBytes(value) ==
    LET entry_count == Len(value.data)
        raw_length == 16 + (entry_count * value.entry_size)
        full_length == next_multiple_of(raw_length, 16)
        padding_len == full_length - raw_length
    IN  IF value.compression # 0 THEN Panic
        ELSE IF \E i \in 1..entry_count : Len(value.data[i]) # value.entry_size
        THEN Panic
        ELSE Ok(to_be_bytes(value.format, 2)
                \o to_be_bytes(value.compression, 2)
                \o to_be_bytes(value.entry_type, 2)
                \o to_be_bytes(value.entry_size, 2)
                \o to_be_bytes(raw_length, 8)
                \o Flatten(value.data)
                \o Zeros(padding_len))

-----------------------------------------------------------------------------
(* The header codec as a state machine: a Header is built, encoded, the    *)
(* buffer is possibly damaged the way the tests of header.rs damage it,    *)
(* and the buffer is decoded.                                              *)

\* extra_data of the given length: all zero (step 0) or 1, 2, 3, ... (step 1),
\* as in test_to_bytes.
ExtraData(len, step) == [i \in 1..len |-> (i * step) % 256]

HeaderInputs ==
    { HeaderNew(n, ExtraData(len, step)) :
        n \in {1, 2}, len \in 0..MaxExtra, step \in {0, 1} }

\* The values of the header variables under a specification of another component.
HeaderIdle == header = HeaderNew(0, <<>>) /\ hbytes = NotCalled /\ hresult = NotCalled

HeaderInit ==
    /\ header \in HeaderInputs
    /\ hbytes = NotCalled
    /\ hresult = NotCalled

\* Vec::from(header)
HeaderEncode ==
    /\ hbytes = NotCalled
    /\ hbytes' = Ok(HeaderToBytes(header))
    /\ UNCHANGED <<compression_feature, header, hresult, mapVars, objectVars, databaseVars>>

\* too_short, invalid_too_short, invalid_padding of the tests: a buffer cut
\* to its first n bytes.
HeaderTruncate ==
    /\ IsOk(hbytes) /\ hresult = NotCalled
    /\ \E n \in {0, 7, 8, 19, 20, 31, 47} :
        /\ n < Len(hbytes.val)
        /\ hbytes' = Ok(SubSeq(hbytes.val, 1, n))
    /\ UNCHANGED <<compression_feature, header, hresult, mapVars, objectVars, databaseVars>>

\* invalid_magic of the tests: "CSBM".
HeaderPatchMagic ==
    /\ IsOk(hbytes) /\ hresult = NotCalled
    /\ Len(hbytes.val) >= 4
    /\ hbytes.val[3] # 66
    /\ hbytes' = Ok([hbytes.val EXCEPT ![3] = 66])
    /\ UNCHANGED <<compression_feature, header, hresult, mapVars, objectVars, databaseVars>>

\* invalid_version, valid_version_big of the tests.
HeaderPatchVersion ==
    /\ IsOk(hbytes) /\ hresult = NotCalled
    /\ Len(hbytes.val) >= 8
    /\ \E v \in {0, 2, 16777216} :
        /\ Slice(hbytes.val, 4, 8) # to_be_bytes(v, 4)
        /\ hbytes' = Ok(Slice(hbytes.val, 0, 4) \o to_be_bytes(v, 4)
                            \o Slice(hbytes.val, 8, Len(hbytes.val)))
    /\ UNCHANGED <<compression_feature, header, hresult, mapVars, objectVars, databaseVars>>

\* invalid_padding of the tests: another value in the header_len field.
HeaderPatchLength ==
    /\ IsOk(hbytes) /\ hresult = NotCalled
    /\ Len(hbytes.val) >= 20
    /\ \E l \in {0, 16, 20, 32, 36, 64} :
        /\ Slice(hbytes.val, 16, 20) # to_be_bytes(l, 4)
        /\ hbytes' = Ok(Slice(hbytes.val, 0, 16) \o to_be_bytes(l, 4)
                            \o Slice(hbytes.val, 20, Len(hbytes.val)))
    /\ UNCHANGED <<compression_feature, header, hresult, mapVars, objectVars, databaseVars>>

\* Header::try_from(bytes)
HeaderDecode ==
    /\ IsOk(hbytes) /\ hresult = NotCalled
    /\ hresult' = HeaderTryFrom(hbytes.val)
    /\ UNCHANGED <<compression_feature, header, hbytes, mapVars, objectVars, databaseVars>>

HeaderNext ==
    \/ HeaderEncode
    \/ HeaderTruncate
    \/ HeaderPatchMagic
    \/ HeaderPatchVersion
    \/ HeaderPatchLength
    \/ HeaderDecode

-----------------------------------------------------------------------------
(* The object-map codec as a state machine. *)

\* The mappings of test_mapping_load and test_mapping_store, and an aligned
\* offset for the second id.
MappingInputs ==
    { ObjectMappingNew(id, offset) : id \in {1, 32}, offset \in {32, 48, 21930} }

RECURSIVE SeqsUpTo(_, _)
SeqsUpTo(S, n) ==
    IF n = 0 THEN { <<>> }
    ELSE LET shorter == SeqsUpTo(S, n - 1)
         IN  shorter \cup { Append(q, x) : q \in shorter, x \in S }

MapIdle ==
    /\ object_map = <<>>
    /\ mbytes = NotCalled
    /\ mcount = 0
    /\ mresult = NotCalled

MapInit ==
    /\ object_map \in SeqsUpTo(MappingInputs, MaxMappings)
    /\ mbytes = NotCalled
    /\ mcount = 0
    /\ mresult = NotCalled

\* Vec::from(object_map), to be decoded with the number of its mappings
MapEncode ==
    /\ mbytes = NotCalled
    /\ mbytes' = Ok(ObjectMapToBytes(object_map))
    /\ mcount' = Len(object_map)
    /\ UNCHANGED <<compression_feature, object_map, mresult, headerVars, objectVars, databaseVars>>

\* invalid_len of test_mapping_load: a buffer cut short.
MapTruncate ==
    /\ IsOk(mbytes) /\ mresult = NotCalled
    /\ \E n \in {0, 15, 16, 31} :
        /\ n < Len(mbytes.val)
        /\ mbytes' = Ok(SubSeq(mbytes.val, 1, n))
    /\ UNCHANGED <<compression_feature, object_map, mcount, mresult, headerVars, objectVars, databaseVars>>

\* parse_v1_headers hands over everything after the header: the map is
\* followed by the objects.
MapExtend ==
    /\ IsOk(mbytes) /\ mresult = NotCalled
    /\ Len(mbytes.val) % 16 = 0
    /\ Len(mbytes.val) <= 16 * MaxMappings
    /\ mbytes' = Ok(mbytes.val \o <<0, 1, 0>>)
    /\ UNCHANGED <<compression_feature, object_map, mcount, mresult, headerVars, objectVars, databaseVars>>

\* The count comes from the header, not from the map.
MapSetCount ==
    /\ IsOk(mbytes) /\ mresult = NotCalled
    /\ \E c \in 0..(MaxMappings + 1) :
        /\ c # mcount
        /\ mcount' = c
    /\ UNCHANGED <<compression_feature, object_map, mbytes, mresult, headerVars, objectVars, databaseVars>>

\* ObjectMap::try_from(bytes, count)
MapDecode ==
    /\ IsOk(mbytes) /\ mresult = NotCalled
    /\ mresult' = ObjectMapTryFrom(mbytes.val, mcount)
    /\ UNCHANGED <<compression_feature, object_map, mbytes, mcount, headerVars, objectVars, databaseVars>>

MapNext ==
    \/ MapEncode
    \/ MapTruncate
    \/ MapExtend
    \/ MapSetCount
    \/ MapDecode

-----------------------------------------------------------------------------
(* The raw-object codec as a state machine. *)

\* An entry of test_object_save: zeros, then k.
Entry(entry_size, k) == [i \in 1..entry_size |-> IF i = entry_size THEN k ELSE 0]

\* Entry sequences whose entries all have entry_size bytes, and one whose
\* entry is a byte too long.
DataInputs(entry_size) ==
    SeqsUpTo({ Entry(entry_size, k) : k \in {1, 2} }, MaxEntries)
        \cup { << Entry(entry_size + 1, 1) >> }

RawObjectInputs ==
    UNION { { [RawObjectNew(258, compression, 1, entry_size) EXCEPT !.data = data] :
                compression \in {0, 1}, data \in DataInputs(entry_size) } :
            entry_size \in {0, 6, 16} }

ObjectIdle ==
    /\ raw_object = RawObjectNew(0, 0, 0, 0)
    /\ obytes = NotCalled
    /\ oresult = NotCalled

ObjectInit ==
    /\ raw_object \in RawObjectInputs
    /\ obytes = NotCalled
    /\ oresult = NotCalled

\* Vec::from(raw_object): the bytes, or the abort of an assert_eq!
ObjectEncode ==
    /\ obytes = NotCalled
    /\ obytes' = RawObjectToBytes(raw_object)
    /\ UNCHANGED <<compression_feature, raw_object, oresult, headerVars, mapVars, databaseVars>>

\* too_short and not_padded of test_object_load: a buffer cut short.
ObjectTruncate ==
    /\ IsOk(obytes) /\ oresult = NotCalled
    /\ \E n \in {0, 15, 16, Len(obytes.val) - 1} :
        /\ 0 <= n /\ n < Len(obytes.val)
        /\ obytes' = Ok(SubSeq(obytes.val, 1, n))
    /\ UNCHANGED <<compression_feature, raw_object, oresult, headerVars, mapVars, databaseVars>>

\* parse_v1_objects hands over everything from the object's offset to the
\* end of the file: the object is followed by the next one.
ObjectExtend ==
    /\ IsOk(obytes) /\ oresult = NotCalled
    /\ Len(obytes.val) % 16 = 0
    /\ Len(obytes.val) <= 16 + 16 * MaxEntries
    /\ \E n \in {3, 15} :
        obytes' = Ok(obytes.val \o [i \in 1..n |-> (i + 1) % 2])
    /\ UNCHANGED <<compression_feature, raw_object, oresult, headerVars, mapVars, databaseVars>>

\* Another value in the length field of the sub-header.
ObjectPatchLength ==
    /\ IsOk(obytes) /\ oresult = NotCalled
    /\ Len(obytes.val) >= 16
    /\ \E l \in {16, 17, 64} :
        /\ Slice(obytes.val, 8, 16) # to_be_bytes(l, 8)
        /\ obytes' = Ok(Slice(obytes.val, 0, 8) \o to_be_bytes(l, 8)
                            \o Slice(obytes.val, 16, Len(obytes.val)))
    /\ UNCHANGED <<compression_feature, raw_object, oresult, headerVars, mapVars, databaseVars>>

\* Another compression code in the sub-header.
ObjectPatchCompression ==
    /\ IsOk(obytes) /\ oresult = NotCalled
    /\ Len(obytes.val) >= 4
    /\ \E c \in {1, 2} :
        /\ Slice(obytes.val, 2, 4) # to_be_bytes(c, 2)
        /\ obytes' = Ok(Slice(obytes.val, 0, 2) \o to_be_bytes(c, 2)
                            \o Slice(obytes.val, 4, Len(obytes.val)))
    /\ UNCHANGED <<compression_feature, raw_object, oresult, headerVars, mapVars, databaseVars>>

\* Another entry size in the sub-header.
ObjectPatchEntrySize ==
    /\ IsOk(obytes) /\ oresult = NotCalled
    /\ Len(obytes.val) >= 8
    /\ \E e \in {0, 5} :
        /\ Slice(obytes.val, 6, 8) # to_be_bytes(e, 2)
        /\ obytes' = Ok(Slice(obytes.val, 0, 6) \o to_be_bytes(e, 2)
                            \o Slice(obytes.val, 8, Len(obytes.val)))
    /\ UNCHANGED <<compression_feature, raw_object, oresult, headerVars, mapVars, databaseVars>>

\* RawObject::try_from(bytes)
ObjectDecode ==
    /\ IsOk(obytes) /\ oresult = NotCalled
    /\ oresult' = RawObjectTryFrom(obytes.val, compression_feature)
    /\ UNCHANGED <<compression_feature, raw_object, obytes, headerVars, mapVars, databaseVars>>

ObjectNext ==
    \/ ObjectEncode
    \/ ObjectTruncate
    \/ ObjectExtend
    \/ ObjectPatchLength
    \/ ObjectPatchCompression
    \/ ObjectPatchEntrySize
    \/ ObjectDecode

-----------------------------------------------------------------------------
(* raw_database_file.rs *)

DatabaseError(kind, detail) == [kind |-> kind, detail |-> detail]

\* A Result with its error wrapped: .map_err(kind)
map_err(result, kind) ==
    IF IsErr(result) THEN Err(DatabaseError(kind, result.err)) ELSE result

\* Insert that keeps the value a key already has.
Insert_KeepFirst(map, id, object) ==
    [k \in DOMAIN map \cup {id} |-> IF k \in DOMAIN map THEN map[k] ELSE object]

\* A HashMap with the pair (id, object) inserted.
Insert(map, id, object) ==
    [k \in DOMAIN map \cup {id} |-> IF k = id THEN object ELSE map[k]]

EmptyMap == [k \in {} |-> k]

\* RawDatabaseFile::parse_v1_headers
parse_v1_headers(value) ==
    LET hdr == map_err(HeaderTryFrom(value), "InvalidHeader")
        remainig_bytes == Slice(value, hdr.val.header_len, Len(value))
        map == map_err(ObjectMapTryFrom(remainig_bytes, hdr.val.number_of_objects),
                       "InvalidObjectMap")
    IN  IF ~IsOk(hdr) THEN hdr
        ELSE IF ~IsOk(map) THEN map
        ELSE Ok([header |-> hdr.val, object_map |-> map.val])

\* ParseObjects with an offset equal to the length of the file accepted.
RECURSIVE ParseObjects_OffByOne(_, _, _, _, _)
ParseObjects_OffByOne(data, mappings, i, objs, feature) ==
    IF i > Len(mappings) THEN Ok(objs)
    ELSE LET mapping == mappings[i]
             start_pos == mapping.offset
             object == map_err(RawObjectTryFrom(Slice(data, start_pos, Len(data)),
                                                feature),
                               "InvalidObject")
         IN  IF start_pos > Len(data)
             THEN Err(DatabaseError("InvalidObjectOffset", mapping))
             ELSE IF ~IsOk(object) THEN object
             ELSE ParseObjects_OffByOne(data, mappings, i + 1,
                                        Insert(objs, mapping.id, object.val), feature)

\* The for loop of RawDatabaseFile::parse_v1_objects from mapping i on.
RECURSIVE ParseObjects(_, _, _, _, _)
ParseObjects(data, mappings, i, objs, feature) ==
    IF i > Len(mappings) THEN Ok(objs)
    ELSE LET mapping == mappings[i]
             start_pos == mapping.offset
             object == map_err(RawObjectTryFrom(Slice(data, start_pos, Len(data)),
                                                feature),
                               "InvalidObject")
         IN  IF start_pos >= Len(data)
             THEN Err(DatabaseError("InvalidObjectOffset", mapping))
             ELSE IF ~IsOk(object) THEN object
             ELSE ParseObjects(data, mappings, i + 1,
                               Insert(objs, mapping.id, object.val), feature)

\* RawDatabaseFile::parse_v1_objects
parse_v1_objects(data, map, feature) ==
    ParseObjects(data, map.mappings, 1, EmptyMap, feature)

\* RawDatabaseFile::parse_v1
parse_v1(value, feature) ==
    LET headers == parse_v1_headers(value)
        objs == parse_v1_objects(value, headers.val.object_map, feature)
    IN  IF ~IsOk(headers) THEN headers
        ELSE IF ~IsOk(objs) THEN objs
        ELSE Ok([header |-> headers.val.header,
                 object_map |-> headers.val.object_map,
                 objects |-> objs.val])

\* RawDatabaseFileTryFrom without the dispatch on the version: the version 1
\* parser is run on every file.
RawDatabaseFileTryFrom_NoDispatch(value, feature) ==
    LET version == map_err(partial_version(value), "InvalidHeader")
    IN  IF ~IsOk(version) THEN version
        ELSE parse_v1(value, feature)

\* impl TryFrom<&[u8]> for RawDatabaseFile
RawDatabaseFileTryFrom(value, feature) ==
    LET version == map_err(partial_version(value), "InvalidHeader")
    IN  IF ~IsOk(version) THEN version
        ELSE IF version.val = 1 THEN parse_v1(value, feature)
        ELSE Err(DatabaseError("UnsupportedVersion", version.val))

-----------------------------------------------------------------------------
(* database.rs *)

\* ObjectCompressionType::get_value
get_value(compression_type) == IF compression_type = "NoCompression" THEN 0 ELSE 1

\* ObjectCompressionType::from_value, a panic for any other value
from_value(value) ==
    IF value = 0 THEN Ok("NoCompression")
    ELSE IF value = 1 THEN Ok("DEFLATE")
    ELSE Panic

\* impl From<&RawObject> for Object and impl From<RawObject> for Object
ObjectFrom(value) ==
    LET compression_type == from_value(value.compression)
    IN  IF ~IsOk(compression_type) THEN Panic
        ELSE Ok([format |-> value.format,
                 compression_type |-> compression_type.val,
                 entry_type |-> value.entry_type,
                 entry_size |-> value.entry_size,
                 data |-> value.data])

\* Option<&Object>
Some(v) == [tag |-> "Some", val |-> v]
OptionNone == [tag |-> "None"]

\* Database::new
DatabaseNew(version) ==
    [objects |-> EmptyMap, last_updated |-> 0, database_version |-> version]

\* Database::get_object
get_object(db, id) ==
    IF id \in DOMAIN db.objects THEN Some(db.objects[id]) ELSE OptionNone

\* DatabaseFromBytes with zeros taken for the extra data a header lacks.
DatabaseFromBytes_DefaultsExtra(data, feature) ==
    LET raw_database == RawDatabaseFileTryFrom(data, feature)
        extra_data == raw_database.val.header.extra_data
        timestamp == from_be_bytes(Slice(extra_data, 0, 8))
        version == from_be_bytes(Slice(extra_data, 8, 16))
        raw_objects == raw_database.val.objects
    IN  IF ~IsOk(raw_database) THEN raw_database
        ELSE IF \E id \in DOMAIN raw_objects : ~IsOk(ObjectFrom(raw_objects[id]))
        THEN Panic
        ELSE Ok([objects |-> [id \in DOMAIN raw_objects |->
                                 ObjectFrom(raw_objects[id]).val],
                 last_updated |-> IF Len(extra_data) < 16 THEN 0 ELSE timestamp,
                 database_version |-> IF Len(extra_data) < 16 THEN 0 ELSE version])

\* Database::from_bytes
DatabaseFromBytes(data, feature) ==
    LET raw_database == RawDatabaseFileTryFrom(data, feature)
        extra_data == raw_database.val.header.extra_data
        timestamp == from_be_bytes(Slice(extra_data, 0, 8))
        version == from_be_bytes(Slice(extra_data, 8, 16))
        raw_objects == raw_database.val.objects
    IN  IF ~IsOk(raw_database) THEN raw_database
        ELSE IF Len(extra_data) < 16
        THEN Err(DatabaseError("HeaderParsingError", "missing v1 extra data"))
        ELSE IF \E id \in DOMAIN raw_objects : ~IsOk(ObjectFrom(raw_objects[id]))
        THEN Panic
        ELSE Ok([objects |-> [id \in DOMAIN raw_objects |->
                                 ObjectFrom(raw_objects[id]).val],
                 last_updated |-> timestamp,
                 database_version |-> version])

\* The for loop of Database::as_bytes over the objects, in the order the
\* HashMap yields them, from position i on.  pre_offset & 16 is bit 4 of
\* pre_offset.
RECURSIVE LayOut(_, _, _, _, _)
LayOut(objs, order, i, mappings, object_data) ==
    IF i > Len(order) THEN Ok([mappings |-> mappings, object_data |-> object_data])
    ELSE LET id == order[i]
             object == objs[id]
             raw_object0 == RawObjectNew(object.format,
                                         get_value(object.compression_type),
                                         object.entry_type, object.entry_size)
             raw == [raw_object0 EXCEPT !.data = object.data]
             pre_offset == Len(object_data)
             out_vec == RawObjectToBytes(raw)
         IN  IF (pre_offset \div 16) % 2 # 0 THEN Panic
             ELSE IF ~IsOk(out_vec) THEN Panic
             ELSE LayOut(objs, order, i + 1,
                         Append(mappings, ObjectMappingNew(id, pre_offset)),
                         object_data \o out_vec.val)

\* DatabaseAsBytes with the Database's last_updated written instead of the
\* clock's reading.
DatabaseAsBytes_KeepsLastUpdated(db, timestamp, order) ==
    LET extra_data == to_be_bytes(db.last_updated, 8)
                          \o to_be_bytes(db.database_version, 8)
        hdr == HeaderNew(Cardinality(DOMAIN db.objects), extra_data)
        output_data == HeaderToBytes(hdr)
        header_len == Len(output_data)
        laid == LayOut(db.objects, order, 1, <<>>, <<>>)
        offset == header_len + (16 * Len(laid.val.mappings))
        patched == [k \in 1..Len(laid.val.mappings) |->
                       ObjectMappingNew(laid.val.mappings[k].id,
                                        laid.val.mappings[k].offset + offset)]
    IN  IF ~IsOk(laid) THEN Panic
        ELSE Ok(output_data \o ObjectMapToBytes(patched) \o laid.val.object_data)

\* DatabaseAsBytes without the patch of the mappings: offsets relative to
\* the start of the object data.
DatabaseAsBytes_RelativeOffsets(db, timestamp, order) ==
    LET extra_data == to_be_bytes(timestamp, 8) \o to_be_bytes(db.database_version, 8)
        hdr == HeaderNew(Cardinality(DOMAIN db.objects), extra_data)
        output_data == HeaderToBytes(hdr)
        laid == LayOut(db.objects, order, 1, <<>>, <<>>)
    IN  IF ~IsOk(laid) THEN Panic
        ELSE Ok(output_data \o ObjectMapToBytes(laid.val.mappings)
                    \o laid.val.object_data)

\* Database::as_bytes, timestamp being the clock's seconds since the epoch
\* and order the iteration order of the HashMap
DatabaseAsBytes(db, timestamp, order) ==
    LET extra_data == to_be_bytes(timestamp, 8) \o to_be_bytes(db.database_version, 8)
        hdr == HeaderNew(Cardinality(DOMAIN db.objects), extra_data)
        output_data == HeaderToBytes(hdr)
        header_len == Len(output_data)
        laid == LayOut(db.objects, order, 1, <<>>, <<>>)
        offset == header_len + (16 * Len(laid.val.mappings))
        patched == [k \in 1..Len(laid.val.mappings) |->
                       ObjectMappingNew(laid.val.mappings[k].id,
                                        laid.val.mappings[k].offset + offset)]
    IN  IF ~IsOk(laid) THEN Panic
        ELSE Ok(output_data \o ObjectMapToBytes(patched) \o laid.val.object_data)

\* Vec::with_capacity(n).as_mut_slice(): a vector of capacity n has length 0,
\* so the slice handed to the read is empty.
WithCapacitySliceLen(n) == 0

\* read_exact_offset: buf_len bytes of the file from offset on, an error when
\* the file ends before (nothing is read into an empty buffer).
read_exact_offset(content, buf_len, offset) ==
    IF buf_len = 0 THEN Ok(<<>>)
    ELSE IF offset + buf_len > Len(content) THEN Err("UnexpectedEof")
    ELSE Ok(Slice(content, offset, offset + buf_len))

\* LazyLoadedDatabase::new on a file that holds content
LazyLoadedDatabaseNew(content) ==
    LET minimal_header_buf == map_err(read_exact_offset(content, 32, 0), "IOError")
        length == from_be_bytes(Slice(minimal_header_buf.val, 16, 20))
        header_data == map_err(read_exact_offset(content, WithCapacitySliceLen(length), 0),
                               "IOError")
        hdr == map_err(HeaderTryFrom(header_data.val), "InvalidHeader")
        mapping_size == 16 * hdr.val.number_of_objects
        mapping_data == map_err(read_exact_offset(content,
                                                  WithCapacitySliceLen(mapping_size),
                                                  hdr.val.header_len),
                                "IOError")
        mapping == map_err(ObjectMapTryFrom(mapping_data.val, hdr.val.number_of_objects),
                           "InvalidObjectMap")
    IN  IF ~IsOk(minimal_header_buf) THEN minimal_header_buf
        ELSE IF ~IsOk(header_data) THEN header_data
        ELSE IF ~IsOk(hdr) THEN hdr
        ELSE IF ~IsOk(mapping_data) THEN mapping_data
        ELSE IF ~IsOk(mapping) THEN mapping
        ELSE Ok([file |-> content, header |-> hdr.val, mapping |-> mapping.val])

\* LazyLoadedDatabase::has_object
has_object(self, id) ==
    \E k \in 1..Len(self.mapping.mappings) : self.mapping.mappings[k].id = id

\* LazyLoadedDatabase::get_object; the unwrap of a decoding error panics.
lazy_get_object(self, id, feature) ==
    LET k == CHOOSE j \in 1..Len(self.mapping.mappings) :
                 /\ self.mapping.mappings[j].id = id
                 /\ \A h \in 1..(j - 1) : self.mapping.mappings[h].id # id
        mapping == self.mapping.mappings[k]
        temp_obj_header == read_exact_offset(self.file, 16, mapping.offset)
        len == from_be_bytes(Slice(temp_obj_header.val, 8, 16))
        object_data == read_exact_offset(self.file, WithCapacitySliceLen(len),
                                         mapping.offset)
        raw == RawObjectTryFrom(object_data.val, feature)
    IN  IF ~has_object(self, id) THEN Err("NotFound")
        ELSE IF ~IsOk(temp_obj_header) THEN Err("IOError")
        ELSE IF ~IsOk(object_data) THEN Err("IOError")
        ELSE IF ~IsOk(raw) THEN Panic
        ELSE ObjectFrom(raw)

-----------------------------------------------------------------------------
(* The Database facade as a state machine: a Database is built with        *)
(* add_object, serialized with as_bytes, the bytes are written to a file,  *)
(* and the file is read back eagerly (Database::from_bytes) and lazily      *)
(* (LazyLoadedDatabase::new).                                              *)

Ids == {1, 2}

\* What the clock may read, in seconds since the epoch.
Clock == {1700000000, 1700000001}

NewObject(compression_type, entry_size, data) ==
    [format |-> 258, compression_type |-> compression_type, entry_type |-> 1,
     entry_size |-> entry_size, data |-> data]

\* Uncompressed objects of 0..MaxEntries well-sized entries (entry k ends in
\* k), and one object each that is DEFLATE-tagged, has entries of no bytes,
\* has an entry of the wrong size.
ObjectInputs ==
    UNION { { NewObject("NoCompression", entry_size,
                        [k \in 1..n |-> Entry(entry_size, k)]) :
                n \in 0..MaxEntries } :
            entry_size \in {6, 16} }
    \cup { NewObject("DEFLATE", 6, << Entry(6, 1) >>),
           NewObject("NoCompression", 0, << <<>> >>),
           NewObject("NoCompression", 6, << Entry(7, 1) >>) }

\* The orders in which a HashMap may yield the keys in S.
Orders(S) ==
    { o \in [1..Cardinality(S) -> S] : \A a, b \in DOMAIN o : a # b => o[a] # o[b] }

\* The Database the facade variables hold.
self == [objects |-> objects, last_updated |-> last_updated,
         database_version |-> database_version]

DatabaseIdle ==
    /\ objects = EmptyMap
    /\ last_updated = 0
    /\ database_version = 0
    /\ file = NotCalled
    /\ loaded = NotCalled
    /\ lazy = NotCalled
    /\ last_call = NotCalled
    /\ clock = 0
    /\ written = NotCalled

\* Database::new(database_version)
DatabaseInit ==
    /\ \E v \in {1, 7} :
        /\ objects = DatabaseNew(v).objects
        /\ last_updated = DatabaseNew(v).last_updated
        /\ database_version = DatabaseNew(v).database_version
    /\ file = NotCalled
    /\ loaded = NotCalled
    /\ lazy = NotCalled
    /\ last_call = NotCalled
    /\ clock = 0
    /\ written = NotCalled

\* Database::add_object(id, obj).  The bytes serialized before the change,
\* and what was read from them, are dropped.
add_object ==
    /\ file.tag # "Panic"
    /\ \E id \in Ids, obj \in ObjectInputs :
        /\ objects' = Insert(objects, id, obj)
        /\ last_call' = [id |-> id, obj |-> obj]
    /\ written' = NotCalled
    /\ file' = NotCalled
    /\ loaded' = NotCalled
    /\ lazy' = NotCalled
    /\ UNCHANGED <<compression_feature, last_updated, database_version, clock,
                   headerVars, mapVars, objectVars>>

\* Database::as_bytes(), the result written to the file; a panic ends the
\* program.
as_bytes ==
    /\ file.tag # "Panic"
    /\ \E timestamp \in Clock, order \in Orders(DOMAIN objects) :
        /\ clock' = timestamp
        /\ written' = DatabaseAsBytes(self, timestamp, order)
        /\ file' = written'
    /\ loaded' = NotCalled
    /\ lazy' = NotCalled
    /\ UNCHANGED <<compression_feature, objects, last_updated, database_version,
                   last_call, headerVars, mapVars, objectVars>>

\* Database::from_bytes(file)
from_bytes ==
    /\ IsOk(file) /\ loaded = NotCalled
    /\ loaded' = DatabaseFromBytes(file.val, compression_feature)
    /\ UNCHANGED <<compression_feature, objects, last_updated, database_version, file,
                   lazy, last_call, clock, written, headerVars, mapVars, objectVars>>

\* LazyLoadedDatabase::new(path of the file)
lazy_new ==
    /\ IsOk(file) /\ lazy = NotCalled
    /\ lazy' = LazyLoadedDatabaseNew(file.val)
    /\ UNCHANGED <<compression_feature, objects, last_updated, database_version, file,
                   loaded, last_call, clock, written, headerVars, mapVars, objectVars>>

\* let db = Database::from_bytes(..)?: the program goes on with the Database
\* it loaded.
reload ==
    /\ IsOk(loaded)
    /\ self # loaded.val
    /\ objects' = loaded.val.objects
    /\ last_updated' = loaded.val.last_updated
    /\ database_version' = loaded.val.database_version
    /\ UNCHANGED <<compression_feature, file, loaded, lazy, last_call, clock, written,
                   headerVars, mapVars, objectVars>>

DatabaseNext ==
    \/ add_object
    \/ as_bytes
    \/ from_bytes
    \/ lazy_new
    \/ reload

-----------------------------------------------------------------------------
(* Files that as_bytes did not write as they are: the bytes handed to      *)
(* Database::from_bytes come from a file that another writer produced or   *)
(* that was cut or damaged.                                                *)

\* The header_len and number_of_objects fields of a file of 20 bytes or more.
FileHeaderLen(bytes) == from_be_bytes(Slice(bytes, 16, 20))
FileCount(bytes) == from_be_bytes(Slice(bytes, 8, 16))

\* Where record k (1, 2, ...) of the object map starts, and its two fields.
FileMappingAt(bytes, k) == FileHeaderLen(bytes) + 16 * (k - 1)
FileMappingId(bytes, k) ==
    from_be_bytes(Slice(bytes, FileMappingAt(bytes, k), FileMappingAt(bytes, k) + 8))
FileMappingOffset(bytes, k) ==
    from_be_bytes(Slice(bytes, FileMappingAt(bytes, k) + 8, FileMappingAt(bytes, k) + 16))

\* The buffer with the bytes from position at on replaced by patch.
PatchBytes(bytes, at, patch) ==
    Slice(bytes, 0, at) \o patch \o Slice(bytes, at + Len(patch), Len(bytes))

\* The file as a writer emits it that stores 12 bytes of extra data: a
\* header of 32 bytes, every object 16 bytes nearer to the start.
ShortHeader(bytes) ==
    LET count == FileCount(bytes)
        header_len == FileHeaderLen(bytes)
        shifted == [k \in 1..count |->
                       ObjectMappingNew(FileMappingId(bytes, k),
                                        FileMappingOffset(bytes, k) - 16)]
    IN  Slice(bytes, 0, 16) \o to_be_bytes(header_len - 16, 4)
            \o Slice(bytes, 20, header_len - 16)
            \o ObjectMapToBytes(shifted)
            \o Slice(bytes, header_len + 16 * count, Len(bytes))

\* The file holds what as_bytes wrote.
Pristine == file = written

\* The file holds what as_bytes wrote, with the long or the short header.
Undamaged ==
    /\ IsOk(written)
    /\ file \in {written, Ok(ShortHeader(written.val))}

FileShortHeader ==
    /\ IsOk(file) /\ loaded = NotCalled
    /\ Pristine
    /\ file' = Ok(ShortHeader(file.val))
    /\ UNCHANGED <<compression_feature, objects, last_updated, database_version,
                   loaded, lazy, last_call, clock, written, headerVars, mapVars, objectVars>>

\* The file cut short.
FileTruncate ==
    /\ IsOk(file) /\ loaded = NotCalled
    /\ Undamaged
    /\ \E n \in {0, 7, 8, 19, 20, FileHeaderLen(file.val),
                  FileMappingAt(file.val, FileCount(file.val) + 1),
                  Len(file.val) - 16, Len(file.val) - 1} :
        /\ n < Len(file.val)
        /\ file' = Ok(Slice(file.val, 0, n))
    /\ UNCHANGED <<compression_feature, objects, last_updated, database_version,
                   loaded, lazy, last_call, clock, written, headerVars, mapVars, objectVars>>

\* Another value in the version field, in the whole file or in its first
\* eight bytes.
FilePatchVersion ==
    /\ IsOk(file) /\ loaded = NotCalled
    /\ Undamaged
    /\ \E v \in {0, 2, 16777216}, n \in {8, Len(file.val)} :
        file' = Ok(Slice(PatchBytes(file.val, 4, to_be_bytes(v, 4)), 0, n))
    /\ UNCHANGED <<compression_feature, objects, last_updated, database_version,
                   loaded, lazy, last_call, clock, written, headerVars, mapVars, objectVars>>

\* Another first byte, the version as it is or 2.
FilePatchMagic ==
    /\ IsOk(file) /\ loaded = NotCalled
    /\ Undamaged
    /\ \E v \in {1, 2} :
        file' = Ok(PatchBytes(file.val, 0, <<0, 83, 71, 77>> \o to_be_bytes(v, 4)))
    /\ UNCHANGED <<compression_feature, objects, last_updated, database_version,
                   loaded, lazy, last_call, clock, written, headerVars, mapVars, objectVars>>

\* Another offset in record k of the object map: the start of the file, the
\* offset of another record, or a position before, at or after the end.
FilePatchOffset ==
    /\ IsOk(file) /\ loaded = NotCalled
    /\ Undamaged
    /\ \E k \in 1..FileCount(file.val) :
        \E o \in {0, Len(file.val) - 8, Len(file.val), Len(file.val) + 16}
                 \cup { FileMappingOffset(file.val, j) : j \in 1..FileCount(file.val) } :
            /\ o # FileMappingOffset(file.val, k)
            /\ file' = Ok(PatchBytes(file.val, FileMappingAt(file.val, k) + 8,
                                     to_be_bytes(o, 8)))
    /\ UNCHANGED <<compression_feature, objects, last_updated, database_version,
                   loaded, lazy, last_call, clock, written, headerVars, mapVars, objectVars>>

\* The id of another record in record k of the object map: an id that is in
\* the map twice.
FilePatchId ==
    /\ IsOk(file) /\ loaded = NotCalled
    /\ Undamaged
    /\ \E k, j \in 1..FileCount(file.val) :
        /\ FileMappingId(file.val, j) # FileMappingId(file.val, k)
        /\ file' = Ok(PatchBytes(file.val, FileMappingAt(file.val, k),
                                 to_be_bytes(FileMappingId(file.val, j), 8)))
    /\ UNCHANGED <<compression_feature, objects, last_updated, database_version,
                   loaded, lazy, last_call, clock, written, headerVars, mapVars, objectVars>>

\* Another value in the length field of the object of record k: no payload,
\* or more than the file holds.
FilePatchObjectLength ==
    /\ IsOk(file) /\ loaded = NotCalled
    /\ Undamaged
    /\ \E k \in 1..FileCount(file.val), l \in {16, 4096} :
        /\ FileMappingOffset(file.val, k) + 16 <= Len(file.val)
        /\ file' = Ok(PatchBytes(file.val, FileMappingOffset(file.val, k) + 8,
                                 to_be_bytes(l, 8)))
    /\ UNCHANGED <<compression_feature, objects, last_updated, database_version,
                   loaded, lazy, last_call, clock, written, headerVars, mapVars, objectVars>>

\* The Database is built and serialized once, before the file is touched.
FileBuild == file = NotCalled /\ add_object

FileWrite == file = NotCalled /\ as_bytes

FileNext ==
    \/ FileBuild
    \/ FileWrite
    \/ from_bytes
    \/ FileShortHeader
    \/ FileTruncate
    \/ FilePatchVersion
    \/ FilePatchMagic
    \/ FilePatchOffset
    \/ FilePatchId
    \/ FilePatchObjectLength

-----------------------------------------------------------------------------
(* Specifications. *)

\* The codecs of header.rs and object_map.rs have no conditional code.
BuildIdle == compression_feature = FALSE

\* The crate is built with or without the compression feature.
BuildInit == compression_feature \in BOOLEAN

InitHeader == HeaderInit /\ MapIdle /\ ObjectIdle /\ DatabaseIdle /\ BuildIdle

SpecHeader == InitHeader /\ [][HeaderNext]_vars

InitMap == HeaderIdle /\ MapInit /\ ObjectIdle /\ DatabaseIdle /\ BuildIdle

SpecMap == InitMap /\ [][MapNext]_vars

InitObject == HeaderIdle /\ MapIdle /\ ObjectInit /\ DatabaseIdle /\ BuildInit

SpecObject == InitObject /\ [][ObjectNext]_vars

Init == HeaderIdle /\ MapIdle /\ ObjectIdle /\ DatabaseInit /\ BuildInit

Next == DatabaseNext

Spec == Init /\ [][Next]_vars

SpecFile == Init /\ [][FileNext]_vars

-----------------------------------------------------------------------------
(* Properties of the header codec, under SpecHeader. *)

\* The buffer is what the encoder made of the Header, and it was decoded.
HeaderRoundTripped ==
    /\ IsOk(hbytes)
    /\ hbytes.val = HeaderToBytes(header)
    /\ hresult # NotCalled

\* C3 as stated: decoding an encoded Header gives version 1, the same
\* number_of_objects, header_len equal to the encoded length, and an
\* extra_data equal to the original byte for byte, of the same length,
\* whatever the length of the original.
C3_HeaderRoundTripExact ==
    HeaderRoundTripped =>
        /\ IsOk(hresult)
        /\ hresult.val.version = 1
        /\ hresult.val.number_of_objects = header.number_of_objects
        /\ hresult.val.header_len = Len(hbytes.val)
        /\ hresult.val.extra_data = header.extra_data

\* C3 as amended: decoding an encoded Header gives version 1, the same
\* number_of_objects, header_len equal to the encoded length, and an
\* extra_data of header_len - 20 bytes that is the original followed by the
\* zero padding; it equals the original exactly when 20 + len(extra_data)
\* is a multiple of 16.
C3_HeaderRoundTripPadded ==
    HeaderRoundTripped =>
        /\ IsOk(hresult)
        /\ hresult.val.version = 1
        /\ hresult.val.number_of_objects = header.number_of_objects
        /\ hresult.val.header_len = Len(hbytes.val)
        /\ Len(hresult.val.extra_data) = hresult.val.header_len - 20
        /\ hresult.val.extra_data =
              header.extra_data
                  \o Zeros(hresult.val.header_len - 20 - Len(header.extra_data))
        /\ (hresult.val.extra_data = header.extra_data
               <=> (20 + Len(header.extra_data)) % 16 = 0)

\* An encoded Header with 13 bytes 1..13 of extra data decoded to 28 bytes.
C3_Witness ==
    /\ HeaderRoundTripped
    /\ IsOk(hresult)
    /\ header.extra_data = <<1, 2, 3, 4, 5, 6, 7, 8, 9, 10, 11, 12, 13>>
    /\ Len(hresult.val.extra_data) = 28

\* C4: the encoder writes the magic 'CSGM', the version and the number of
\* objects big-endian, header_len, the extra data and zero bytes; header_len
\* is the smallest multiple of 16 that is >= 20 + len(extra_data) and is the
\* length of the output; empty extra data gives 32 bytes, 12 bytes give 32
\* with no padding, 13 bytes give 48 with 15 zero bytes.
C4_HeaderEncodeLayout ==
    (IsOk(hbytes) /\ hbytes.val = HeaderToBytes(header)) =>
        LET out == hbytes.val
            n == Len(header.extra_data)
            written_len == from_be_bytes(Slice(out, 16, 20))
        IN  /\ Len(out) >= 20
            /\ Slice(out, 0, 4) = <<67, 83, 71, 77>>
            /\ Slice(out, 4, 8) = <<0, 0, 0, 1>>
            /\ Slice(out, 8, 15) = <<0, 0, 0, 0, 0, 0, 0>>
            /\ out[16] = header.number_of_objects
            /\ written_len % 16 = 0
            /\ written_len >= 20 + n
            /\ written_len - 16 < 20 + n
            /\ Len(out) = written_len
            /\ Slice(out, 20, 20 + n) = header.extra_data
            /\ \A i \in (20 + n + 1)..Len(out) : out[i] = 0
            /\ (n = 0 => Len(out) = 32)
            /\ (n = 12 => Len(out) = 32)
            /\ (n = 13 => Len(out) = 48 /\ Len(out) - (20 + n) = 15)

\* The encoder's output for 13 bytes of extra data: 48 bytes.
C4_Witness ==
    /\ IsOk(hbytes)
    /\ hbytes.val = HeaderToBytes(header)
    /\ Len(header.extra_data) = 13
    /\ Len(hbytes.val) = 48
    /\ hbytes.val[20] = 48

\* The first applicable error of the claim's order for a buffer, "none" when
\* none applies.
FirstHeaderError(b) ==
    IF Len(b) < 20 THEN "TooShort"
    ELSE IF Slice(b, 0, 4) # <<67, 83, 71, 77>> THEN "InvalidMagic"
    ELSE IF from_be_bytes(Slice(b, 4, 8)) # 1 THEN "UnsupportedVersion"
    ELSE IF from_be_bytes(Slice(b, 16, 20)) > Len(b) THEN "TooShort"
    ELSE IF from_be_bytes(Slice(b, 16, 20)) % 16 # 0 THEN "InvalidPadding"
    ELSE "none"

\* C5: a failing header decode reports the first applicable error of the
\* order: fewer than 20 bytes TooShort, wrong magic InvalidMagic, version
\* other than 1 UnsupportedVersion, header_len beyond the buffer TooShort,
\* header_len not a multiple of 16 InvalidPadding; wrong magic with a wrong
\* version is InvalidMagic, 20 bytes with header_len 0x14 InvalidPadding.
C5_HeaderDecodeErrorOrder ==
    hresult # NotCalled =>
        LET b == hbytes.val
        IN  /\ FirstHeaderError(b) # "none" => hresult = Err(FirstHeaderError(b))
            /\ IsErr(hresult) => hresult.err = FirstHeaderError(b)
            /\ (/\ Len(b) >= 20
                /\ Slice(b, 0, 4) # <<67, 83, 71, 77>>
                /\ from_be_bytes(Slice(b, 4, 8)) # 1) => hresult = Err("InvalidMagic")
            /\ (Len(b) = 20 /\ Slice(b, 0, 8) = <<67, 83, 71, 77, 0, 0, 0, 1>>
                /\ Slice(b, 16, 20) = <<0, 0, 0, 20>>) => hresult = Err("InvalidPadding")

\* A 20-byte buffer with header_len 0x14 was decoded to InvalidPadding.
C5_Witness ==
    /\ hresult = Err("InvalidPadding")
    /\ Len(hbytes.val) = 20
    /\ Slice(hbytes.val, 16, 20) = <<0, 0, 0, 20>>

-----------------------------------------------------------------------------
(* Properties of the object-map codec, under SpecMap. *)

\* Record i (from 1) of a buffer, as stored.
StoredMapping(b, i) ==
    [id |-> from_be_bytes(Slice(b, 16 * (i - 1), 16 * (i - 1) + 8)),
     offset |-> from_be_bytes(Slice(b, 16 * (i - 1) + 8, 16 * i))]

\* C6: for an ObjectMap of n >= 0 mappings whose offsets are multiples of
\* 16, the encoder emits 16*n bytes and decoding them with count n returns
\* the same (id, offset) pairs in the same order.
C6_ObjectMapRoundTrip ==
    (/\ IsOk(mbytes)
     /\ mbytes.val = ObjectMapToBytes(object_map)
     /\ mcount = Len(object_map)
     /\ \A i \in 1..Len(object_map) : object_map[i].offset % 16 = 0
     /\ mresult # NotCalled) =>
        /\ Len(mbytes.val) = 16 * Len(object_map)
        /\ IsOk(mresult)
        /\ mresult.val.mappings = object_map

\* C7: decode(bytes, count) succeeds if and only if len(bytes) >= count*16
\* and each of the first count records has an offset that is a multiple of
\* 16; it fails with InvalidLength exactly when len(bytes) < count*16 and
\* otherwise with InvalidPadding; with count 0 it succeeds with an empty
\* map for any buffer, the empty one included; bytes beyond count*16 are
\* ignored.
C7_ObjectMapDecodeAcceptance ==
    mresult # NotCalled =>
        LET b == mbytes.val
            long_enough == Len(b) >= mcount * 16
            aligned == \A i \in 1..mcount : StoredMapping(b, i).offset % 16 = 0
        IN  /\ IsOk(mresult) <=> (long_enough /\ aligned)
            /\ mresult = Err("InvalidLength") <=> ~long_enough
            /\ (long_enough /\ ~aligned) => mresult = Err("InvalidPadding")
            /\ mcount = 0 => (IsOk(mresult) /\ mresult.val.mappings = <<>>)
            /\ IsOk(mresult) => Len(mresult.val.mappings) = mcount

\* C8: decoding a buffer that holds count >= 1 records returns every one of
\* them with id and offset as stored, also when a stored offset is not a
\* multiple of 16 (the buffer of test_mapping_load: (1, 0x20), (0x20, 0x55aa)).
C8_ObjectMapDecodeKeepsMisaligned ==
    (mresult # NotCalled /\ mcount >= 1 /\ Len(mbytes.val) >= 16 * mcount) =>
        /\ IsOk(mresult)
        /\ Len(mresult.val.mappings) = mcount
        /\ \A i \in 1..mcount : mresult.val.mappings[i] = StoredMapping(mbytes.val, i)

\* C25: for every byte sequence the header decode returns one of the four
\* typed errors or a Header with version 1, header_len a multiple of 16,
\* 20 <= header_len <= len(bytes) and extra_data of header_len - 20 bytes;
\* it never aborts, also for a header_len field of 0 or 16.
C25_HeaderDecodeTotal ==
    (IsOk(hbytes) /\ hresult # NotCalled) =>
        \/ /\ IsErr(hresult)
           /\ hresult.err \in {"TooShort", "InvalidMagic", "UnsupportedVersion",
                                "InvalidPadding"}
        \/ /\ IsOk(hresult)
           /\ hresult.val.version = 1
           /\ hresult.val.header_len % 16 = 0
           /\ 20 <= hresult.val.header_len
           /\ hresult.val.header_len <= Len(hbytes.val)
           /\ Len(hresult.val.extra_data) = hresult.val.header_len - 20

-----------------------------------------------------------------------------
(* Properties of the raw-object codec, under SpecObject. *)

\* The object is uncompressed and each of its entries has entry_size bytes.
WellFormed(object) ==
    \A i \in 1..Len(object.data) : Len(object.data[i]) = object.entry_size

\* The buffer is what the encoder made of the RawObject, and it was decoded.
ObjectRoundTripped ==
    /\ IsOk(obytes)
    /\ obytes = RawObjectToBytes(raw_object)
    /\ oresult # NotCalled

\* C9: for a RawObject with compression 0 whose entries (any number, none
\* included) each have entry_size bytes, decoding the encoded bytes succeeds
\* and gives the same format, compression, entry_type, entry_size and
\* entries, and a length field of 16 + entry_count*entry_size.
C9_RawObjectRoundTrip ==
    (ObjectRoundTripped /\ raw_object.compression = 0 /\ WellFormed(raw_object)) =>
        /\ IsOk(oresult)
        /\ oresult.val.format = raw_object.format
        /\ oresult.val.compression = raw_object.compression
        /\ oresult.val.entry_type = raw_object.entry_type
        /\ oresult.val.entry_size = raw_object.entry_size
        /\ oresult.val.data = raw_object.data
        /\ oresult.val.length = 16 + Len(raw_object.data) * raw_object.entry_size

C11_RawObjectLengthIsFootprint ==
    (/\ IsOk(obytes)
     /\ obytes = RawObjectToBytes(raw_object)
     /\ raw_object.compression = 0) =>
        from_be_bytes(Slice(obytes.val, 8, 16)) = Len(obytes.val)

\* The buffer was handed to the decoder.
ObjectDecoded == IsOk(obytes) /\ oresult # NotCalled

\* The fields of the sub-header of a buffer of 16 bytes or more.
SubHeader(bytes) ==
    [compression |-> from_be_bytes(Slice(bytes, 2, 4)),
     entry_size |-> from_be_bytes(Slice(bytes, 6, 8)),
     length |-> from_be_bytes(Slice(bytes, 8, 16))]

\* The buffer has fewer than 16 bytes, or declares a length of 16 or less,
\* or declares a length beyond its end.
ObjectBufferTooShort(bytes) ==
    \/ Len(bytes) < 16
    \/ SubHeader(bytes).length <= 16
    \/ SubHeader(bytes).length > Len(bytes)

\* C12: the decoder fails with TooShort for a buffer of fewer than 16 bytes,
\* for a declared length of 16 or less and for a declared length beyond the
\* buffer; for a buffer that passes these checks it fails with
\* UnsupportedCompression(c) for every compression code c other than 0 and
\* 1, and for 1 in a build without decompression support.  Each of these
\* calls returns its error: none of them aborts on a read past the buffer.
C12_RawObjectDecodeRejection ==
    ObjectDecoded =>
        LET bytes == obytes.val
            c == SubHeader(bytes).compression
        IN  IF ObjectBufferTooShort(bytes)
            THEN oresult = Err(ObjectTooShort)
            ELSE /\ c \notin {0, 1} => oresult = Err(UnsupportedCompression(c))
                 /\ (c = 1 /\ ~compression_feature) =>
                        oresult = Err(UnsupportedCompression(1))

\* A buffer with compression code 2 was rejected, and so was one with code
\* 1 in a build without the feature or one that declares more than it has.
C12_Witness ==
    /\ ObjectDecoded
    /\ ~ObjectBufferTooShort(obytes.val)
    /\ SubHeader(obytes.val).compression = 2
    /\ oresult = Err(UnsupportedCompression(2))

C14_RawObjectDecodeInvalidPadding ==
    (/\ ObjectDecoded
     /\ Len(obytes.val) = 47
     /\ SubHeader(obytes.val).compression = 0
     /\ SubHeader(obytes.val).entry_size = 6
     /\ SubHeader(obytes.val).length = 28) =>
        oresult = Err(ObjectInvalidPadding)

\* C26: for every byte sequence, sub-headers with entry_size 0 and a valid
\* length included, the decoder returns a RawObject or a typed
\* ObjectDecodeError and never aborts, and a decoded RawObject has
\* compression 0 or 1, so that ObjectCompressionType::from_value takes it.
C26_RawObjectDecodeTotal ==
    ObjectDecoded =>
        /\ oresult.tag \in {"Ok", "Err"}
        /\ IsOk(oresult) =>
              /\ oresult.val.compression \in {0, 1}
              /\ IsOk(ObjectFrom(oresult.val))

-----------------------------------------------------------------------------
(* Properties of the two facades, under Spec. *)

\* Every object of the Database is uncompressed with entries of entry_size
\* bytes.
AllWellFormed ==
    \A id \in DOMAIN objects :
        /\ objects[id].compression_type = "NoCompression"
        /\ WellFormed(objects[id])

\* C1: for a Database built by Database::new and add_object calls with one
\* or more distinct ids, every object uncompressed with entries of
\* entry_size bytes, as_bytes returns bytes and Database::from_bytes of them
\* succeeds with the same set of ids, each with the same format, entry_type,
\* entry_size and entries.
C1_EagerRoundTrip ==
    (DOMAIN objects # {} /\ AllWellFormed /\ file # NotCalled) =>
        /\ IsOk(file)
        /\ loaded # NotCalled =>
              /\ IsOk(loaded)
              /\ DOMAIN loaded.val.objects = DOMAIN objects
              /\ \A id \in DOMAIN objects :
                    /\ loaded.val.objects[id].format = objects[id].format
                    /\ loaded.val.objects[id].entry_type = objects[id].entry_type
                    /\ loaded.val.objects[id].entry_size = objects[id].entry_size
                    /\ loaded.val.objects[id].data = objects[id].data

\* C2: for a file written from the bytes as_bytes returned, which
\* Database::from_bytes reads, LazyLoadedDatabase::new opens the file and
\* the two facades agree on every id: a present id has has_object true and
\* a lazy get_object equal to the eager one, an absent id has has_object
\* false, a lazy NotFound and an eager None.
C2_FacadeEquivalence ==
    (IsOk(file) /\ IsOk(loaded) /\ lazy # NotCalled) =>
        /\ IsOk(lazy)
        /\ \A id \in Ids \cup {3}, feature \in BOOLEAN :
              LET eager == get_object(loaded.val, id)
              IN  IF eager # OptionNone
                  THEN /\ has_object(lazy.val, id)
                       /\ lazy_get_object(lazy.val, id, feature) = Ok(eager.val)
                  ELSE /\ ~has_object(lazy.val, id)
                       /\ lazy_get_object(lazy.val, id, feature) = Err("NotFound")

-----------------------------------------------------------------------------
(* Properties of the decoding of files, under SpecFile. *)

\* The file was handed to Database::from_bytes.
FileLoaded == IsOk(file) /\ loaded # NotCalled

\* C15: when header and object map decode, the mappings are processed in map
\* order; the first mapping that fails, if its offset is >= len(bytes),
\* makes the decode fail with InvalidObjectOffset carrying that mapping; a
\* mapping with offset < len(bytes) is decoded from the slice that starts at
\* its offset, and an object whose declared extent runs past the end of the
\* file gives InvalidObject(TooShort).
C15_OffsetValidation ==
    (FileLoaded /\ IsOk(parse_v1_headers(file.val))) =>
        LET bytes == file.val
            maps == parse_v1_headers(bytes).val.object_map.mappings
            SliceAt(k) == Slice(bytes, maps[k].offset, Len(bytes))
            ObjectAt(k) == RawObjectTryFrom(SliceAt(k), compression_feature)
            Fails(k) == maps[k].offset >= Len(bytes) \/ ~IsOk(ObjectAt(k))
        IN  \A k \in 1..Len(maps) :
                (Fails(k) /\ \A j \in 1..(k - 1) : ~Fails(j)) =>
                    IF maps[k].offset >= Len(bytes)
                    THEN loaded = Err(DatabaseError("InvalidObjectOffset", maps[k]))
                    ELSE /\ IsErr(ObjectAt(k))
                         /\ loaded = Err(DatabaseError("InvalidObject", ObjectAt(k).err))
                         /\ ObjectBufferTooShort(SliceAt(k)) =>
                               loaded = Err(DatabaseError("InvalidObject", ObjectTooShort))

\* The second of two mappings points at or past the end of the file, the
\* first one at an object that decodes.
C15_Witness ==
    /\ FileLoaded
    /\ Len(file.val) >= 64
    /\ IsOk(parse_v1_headers(file.val))
    /\ FileCount(file.val) = 2
    /\ FileMappingOffset(file.val, 1) < Len(file.val)
    /\ FileMappingOffset(file.val, 2) >= Len(file.val)
    /\ loaded = Err(DatabaseError("InvalidObjectOffset",
                                  ObjectMappingNew(FileMappingId(file.val, 2),
                                                   FileMappingOffset(file.val, 2))))

\* C16: a buffer shorter than 8 bytes fails with InvalidHeader(TooShort), one
\* of 8 bytes or more with wrong magic with InvalidHeader(InvalidMagic), and
\* one of 8 bytes or more with the magic and a version v # 1 with
\* UnsupportedVersion(v), v being the big-endian u32 at bytes 4..8, whatever
\* follows byte 8.
C16_VersionDispatch ==
    FileLoaded =>
        LET bytes == file.val
            v == from_be_bytes(Slice(bytes, 4, 8))
        IN  IF Len(bytes) < 8
            THEN loaded = Err(DatabaseError("InvalidHeader", "TooShort"))
            ELSE IF Slice(bytes, 0, 4) # <<67, 83, 71, 77>>
            THEN loaded = Err(DatabaseError("InvalidHeader", "InvalidMagic"))
            ELSE /\ partial_version(bytes) = Ok(v)
                 /\ v # 1 => loaded = Err(DatabaseError("UnsupportedVersion", v))

\* A file of eight bytes, magic and version 2, was rejected for its version.
C16_Witness ==
    /\ FileLoaded
    /\ Len(file.val) = 8
    /\ Slice(file.val, 0, 4) = HEADER_MAGIC
    /\ loaded = Err(DatabaseError("UnsupportedVersion", 2))

\* The records of the object map of a file whose header and map decode.
FileMappings(bytes) ==
    [k \in 1..FileCount(bytes) |->
        ObjectMappingNew(FileMappingId(bytes, k), FileMappingOffset(bytes, k))]

\* The last record of the map that carries id.
LastMappingOf(bytes, id) ==
    LET maps == FileMappings(bytes)
        k == CHOOSE j \in 1..Len(maps) :
                 /\ maps[j].id = id
                 /\ \A h \in (j + 1)..Len(maps) : maps[h].id # id
    IN  maps[k]

\* C17, the calls: get_object of the id of the most recent add_object gives
\* the object of that call.
LastCallStored ==
    last_call # NotCalled => get_object(self, last_call.id) = Some(last_call.obj)

\* C17, the other ids: a step leaves what get_object gives for every id but
\* the one of the most recent add_object as it was.
OtherIdsKept ==
    \A id \in Ids :
        \/ last_call' # NotCalled /\ id = last_call'.id
        \/ get_object([objects |-> objects'], id) = get_object(self, id)

\* C17, the file: Database::from_bytes of a file whose map has an id more
\* than once keeps, for every id of the map, the object its last record
\* points at.
LaterMappingKept ==
    (FileLoaded /\ IsOk(loaded)) =>
        LET bytes == file.val
            maps == FileMappings(bytes)
        IN  /\ DOMAIN loaded.val.objects = { maps[k].id : k \in 1..Len(maps) }
            /\ \A id \in DOMAIN loaded.val.objects :
                  Ok(loaded.val.objects[id]) =
                      ObjectFrom(RawObjectTryFrom(
                          Slice(bytes, LastMappingOf(bytes, id).offset, Len(bytes)),
                          compression_feature).val)

C18_DuplicateAddKeepsObject ==
    [][last_call' # last_call =>
          \A id \in DOMAIN objects :
              get_object([objects |-> objects'], id) = Some(objects[id])]_vars

\* C19: when header, object map and every object decode, from_bytes fails
\* with HeaderParsingError for extra_data of fewer than 16 bytes and
\* otherwise gives last_updated = the u64 at extra_data[0..8] and
\* database_version = the u64 at extra_data[8..16]; when one of them does
\* not decode, from_bytes fails with that error, never HeaderParsingError.
C19_ExtraDataHandling ==
    FileLoaded =>
        LET bytes == file.val
            raw == RawDatabaseFileTryFrom(bytes, compression_feature)
            extra_data == Slice(bytes, 20, FileHeaderLen(bytes))
        IN  IF IsOk(raw)
            THEN IF Len(extra_data) < 16
                 THEN /\ loaded.tag = "Err"
                      /\ loaded.err.kind = "HeaderParsingError"
                 ELSE /\ IsOk(loaded)
                      /\ loaded.val.last_updated = from_be_bytes(Slice(extra_data, 0, 8))
                      /\ loaded.val.database_version =
                             from_be_bytes(Slice(extra_data, 8, 16))
            ELSE /\ loaded = raw
                 /\ IsErr(loaded) => loaded.err.kind # "HeaderParsingError"

\* A file with a 32-byte header (12 bytes of extra data) whose objects all
\* decode was rejected with HeaderParsingError.
C19_Witness ==
    /\ FileLoaded
    /\ Len(file.val) >= 64
    /\ FileHeaderLen(file.val) = 32
    /\ FileCount(file.val) = 2
    /\ IsOk(RawDatabaseFileTryFrom(file.val, compression_feature))
    /\ loaded = Err(DatabaseError("HeaderParsingError", "missing v1 extra data"))

-----------------------------------------------------------------------------
(* Properties of serialization, under Spec. *)

\* C20, the bytes: the file holds the clock's reading of the as_bytes call
\* at extra_data[0..8] and database_version at extra_data[8..16], and
\* from_bytes of it gives that database_version and that reading.
FreshStamp ==
    IsOk(file) =>
        /\ Slice(file.val, 20, 28) = to_be_bytes(clock, 8)
        /\ Slice(file.val, 28, 36) = to_be_bytes(database_version, 8)
        /\ IsOk(loaded) =>
              /\ loaded.val.database_version = database_version
              /\ loaded.val.last_updated = clock

\* C20, the Database: a step in which as_bytes returns leaves objects,
\* last_updated and database_version as they were.
AsBytesKeepsDatabase ==
    (written' # written /\ written' # NotCalled) =>
        UNCHANGED <<objects, last_updated, database_version>>

\* C20: every as_bytes call writes the clock value read during the call at
\* extra_data bytes 0..8 and database_version at bytes 8..16, never the
\* last_updated of the Database; it leaves the Database unchanged; and
\* from_bytes of the bytes has the same database_version and last_updated
\* equal to the clock value of the as_bytes call.
C20_FreshTimestamp ==
    /\ []FreshStamp
    /\ [][AsBytesKeepsDatabase]_vars

\* A Database loaded from a file stamped at one reading was serialized at
\* another reading and loaded again.
C20_Witness ==
    /\ IsOk(file)
    /\ IsOk(loaded)
    /\ last_updated # 0
    /\ last_updated # clock
    /\ loaded.val.last_updated = clock

\* The RawObject as_bytes makes of an Object.
RawOf(object) ==
    [RawObjectNew(object.format, get_value(object.compression_type),
                  object.entry_type, object.entry_size) EXCEPT !.data = object.data]

\* The bytes an encoded object takes in the file: its sub-header and entries,
\* rounded up to a multiple of 16.
Footprint(object) ==
    next_multiple_of(16 + Len(object.data) * object.entry_size, 16)

\* The footprints of the objects of the first k records of the map.
RECURSIVE FootprintsUpTo(_, _)
FootprintsUpTo(maps, k) ==
    IF k = 0 THEN 0
    ELSE FootprintsUpTo(maps, k - 1) + Footprint(objects[maps[k].id])

\* C21: whenever as_bytes returns bytes for a database with n objects, the
\* header's number_of_objects is n, the map has n mappings with pairwise
\* distinct ids, every offset is a multiple of 16 and equals
\* header_len + 16*n + the padded footprints of the objects laid out before,
\* the sub-header of that id's object starts at that offset, and the total
\* length is header_len + 16*n + the sum of all padded footprints.
C21_SerializedLayout ==
    IsOk(written) =>
        LET bytes == written.val
            n == Cardinality(DOMAIN objects)
            header_len == FileHeaderLen(bytes)
            maps == FileMappings(bytes)
        IN  /\ FileCount(bytes) = n
            /\ { maps[k].id : k \in 1..n } = DOMAIN objects
            /\ \A j, k \in 1..n : j # k => maps[j].id # maps[k].id
            /\ \A k \in 1..n :
                  LET offset == maps[k].offset
                      object == objects[maps[k].id]
                  IN  /\ offset % 16 = 0
                      /\ offset = header_len + 16 * n + FootprintsUpTo(maps, k - 1)
                      /\ Slice(bytes, offset, offset + 16) =
                            to_be_bytes(object.format, 2) \o <<0, 0>>
                                \o to_be_bytes(object.entry_type, 2)
                                \o to_be_bytes(object.entry_size, 2)
                                \o to_be_bytes(16 + Len(object.data) * object.entry_size, 8)
            /\ Len(bytes) = header_len + 16 * n + FootprintsUpTo(maps, n)

\* as_bytes returned the bytes of two objects, the second one laid out 32
\* bytes after the first.
C21_Witness ==
    /\ IsOk(written)
    /\ Cardinality(DOMAIN objects) = 2
    /\ FileMappingOffset(written.val, 1) = 48 + 32
    /\ FileMappingOffset(written.val, 2) = 48 + 32 + 32
    /\ Len(written.val) > 48 + 32 + 32 + 32

\* C22: the raw-object encoder aborts for compression # 0 and for an entry
\* whose length differs from entry_size, so as_bytes on a Database that
\* holds such an object aborts instead of returning a buffer, and the bytes
\* as_bytes returns never carry a compression code other than 0.
C22_EncodePreconditions ==
    written # NotCalled =>
        /\ \A id \in DOMAIN objects :
              (get_value(objects[id].compression_type) # 0 \/ ~WellFormed(objects[id])) =>
                  /\ RawObjectToBytes(RawOf(objects[id])) = Panic
                  /\ written = Panic
        /\ IsOk(written) =>
              \A k \in 1..FileCount(written.val) :
                  LET offset == FileMappingOffset(written.val, k)
                  IN  Slice(written.val, offset + 2, offset + 4) = <<0, 0>>

\* as_bytes on a Database whose only object is DEFLATE-tagged aborted.
C22_Witness ==
    /\ written = Panic
    /\ DOMAIN objects = {1}
    /\ objects[1].compression_type = "DEFLATE"

\* C23: LazyLoadedDatabase::new on a file that holds what as_bytes returned,
\* and that the eager parser accepts, succeeds with the Header and the object
\* map of the eager parse; a file shorter than 32 bytes gives IOError.
C23_LazyConstruction ==
    (IsOk(written) /\ file = written /\ lazy # NotCalled) =>
        IF Len(file.val) < 32
        THEN lazy.tag = "Err" /\ lazy.err.kind = "IOError"
        ELSE IsOk(parse_v1_headers(file.val)) =>
                /\ IsOk(lazy)
                /\ lazy.val.header = parse_v1_headers(file.val).val.header
                /\ lazy.val.mapping = parse_v1_headers(file.val).val.object_map

\* C24: for a Database whose objects are all uncompressed with entries of
\* entry_size bytes the padding check of as_bytes never fires: as_bytes
\* returns a buffer, also when the footprint of the objects laid out before
\* is an odd multiple of 16.
C24_PaddingCheckUnreachable ==
    (written # NotCalled /\ AllWellFormed) => written # Panic

\* The facade LazyLoadedDatabase::new is to return for a file: the file with
\* the header and the object map of its eager parse.
FacadeOf(bytes) ==
    [file |-> bytes,
     header |-> parse_v1_headers(bytes).val.header,
     mapping |-> parse_v1_headers(bytes).val.object_map]

\* C27: for an id of the map get_object reads the sub-header at the
\* mapping's offset, then length bytes from the same offset and decodes
\* them: it gives the object the eager parse gives, or IOError for a failed
\* read, or InvalidObject for bytes that do not decode, and never aborts.
C27_LazyGetObject ==
    (IsOk(written) /\ file = written /\ lazy # NotCalled
        /\ IsOk(parse_v1_headers(file.val))) =>
        \A id \in Ids :
            has_object(FacadeOf(file.val), id) =>
                LET got == lazy_get_object(FacadeOf(file.val), id, compression_feature)
                    mapping == LastMappingOf(file.val, id)
                    extent == from_be_bytes(Slice(file.val, mapping.offset + 8,
                                                  mapping.offset + 16))
                    raw == RawObjectTryFrom(Slice(file.val, mapping.offset,
                                                  mapping.offset + extent),
                                            compression_feature)
                IN  /\ got # Panic
                    /\ IsOk(raw) => got = ObjectFrom(raw.val)
                    /\ IsErr(raw) => got = Err("InvalidObject")

=============================================================================
